---- MODULE Spec2Model ----
(***************************************************************************)
(* rtrim: removal of trailing whitespace from text files by an atomic      *)
(* write-sync-rename of a temporary sibling file (src/src/main.rs).        *)
(*                                                                         *)
(* Text is a sequence of Unicode code points, file content a sequence of   *)
(* bytes; std::str::from_utf8 and str::as_bytes convert between the two.   *)
(***************************************************************************)
EXTENDS Integers, Sequences, FiniteSets, TLC

\* ------------------------------------------------------------------ bounds
\* Longest text handed to trim_trailing_whitespace (code points).
MaxLen == 5

\* --------------------------------------------------------------- characters
\* '\n', pushed after every line (main.rs:274) and tested by ends_with (278).
LF == 10
\* '\r', which str::lines() strips when it precedes '\n' (main.rs:268).
CR == 13
\* ' ' and '\t', the trailing whitespace of the tests (main.rs:463, 471).
SP == 32
TAB == 9
\* U+00A0 NO-BREAK SPACE: White_Space, so str::trim_end() removes it (269).
NBSP == 160
\* 'a', a character that is not whitespace.
LetterA == 97

\* char::is_whitespace, the predicate str::trim_end() uses (main.rs:269):
\* the Unicode White_Space code points, here those below U+0800.
is_whitespace(c) == c \in {9, 10, 11, 12, 13, 32, 133, 160}

\* The code points texts are built from.
Char == {LetterA, SP, TAB, CR, LF, NBSP}

\* All texts of at most n code points.
Strings(n) == UNION {[1..k -> Char] : k \in 0..n}

\* ------------------------------------------------------------ std helpers
Last(s) == s[Len(s)]
Front(s) == SubSeq(s, 1, Len(s) - 1)

\* str::ends_with(c) (main.rs:278).
ends_with(s, c) == Len(s) > 0 /\ Last(s) = c

\* char::len_utf8: the number of bytes of a code point below U+0800.
len_utf8(c) == IF c < 128 THEN 1 ELSE 2

\* str::len(): the length in BYTES, as compared on main.rs:270.
RECURSIVE str_len(_)
str_len(s) == IF s = <<>> THEN 0 ELSE len_utf8(Last(s)) + str_len(Front(s))

\* Mutant of trim_end: str::trim(), which strips leading whitespace too.
RECURSIVE trim_start(_)
trim_start(line) ==
  IF line = <<>> \/ ~is_whitespace(Head(line)) THEN line
  ELSE trim_start(Tail(line))
RECURSIVE trim_end_only(_)
trim_end_only(line) ==
  IF line = <<>> \/ ~is_whitespace(Last(line)) THEN line
  ELSE trim_end_only(Front(line))
trim_both(line) == trim_start(trim_end_only(line))

\* Mutant of trim_end: only one trailing whitespace character is removed.
trim_end_one(line) ==
  IF line = <<>> \/ ~is_whitespace(Last(line)) THEN line ELSE Front(line)

\* Mutant of trim_end: trim_end_matches(' '), which leaves tabs in place.
RECURSIVE trim_end_spaces(_)
trim_end_spaces(line) ==
  IF line = <<>> \/ Last(line) # SP THEN line
  ELSE trim_end_spaces(Front(line))

\* str::trim_end() (main.rs:269): drops the longest whitespace suffix.
RECURSIVE trim_end(_)
trim_end(line) ==
  IF line = <<>> \/ ~is_whitespace(Last(line)) THEN line
  ELSE trim_end(Front(line))

\* str::split_inclusive('\n'), on which str::lines() is built: the pieces
\* of s, each ending with its '\n' except possibly the last.
RECURSIVE split_inclusive(_, _)
split_inclusive(s, cur) ==
  IF s = <<>> THEN (IF cur = <<>> THEN <<>> ELSE <<cur>>)
  ELSE IF Head(s) = LF THEN <<Append(cur, LF)>> \o split_inclusive(Tail(s), <<>>)
  ELSE split_inclusive(Tail(s), Append(cur, Head(s)))

\* Mutant of strip_line_ending: only the '\n' is stripped, the '\r' before
\* it stays in the line.
strip_newline_only(piece) ==
  IF ends_with(piece, LF) THEN Front(piece) ELSE piece

\* The mapping str::lines() applies to each piece: strip one '\n' suffix,
\* and only then one '\r' suffix (a bare final '\r' is kept).
strip_line_ending(piece) ==
  IF ~ends_with(piece, LF) THEN piece
  ELSE IF ends_with(Front(piece), CR) THEN Front(Front(piece))
  ELSE Front(piece)

\* str::lines() (main.rs:268).
lines(content) ==
  LET pieces == split_inclusive(content, <<>>)
  IN  [i \in 1..Len(pieces) |-> strip_line_ending(pieces[i])]

\* ------------------------------------------------- trim_trailing_whitespace
\* The loop body's test (main.rs:270): the line lost bytes to trim_end.
line_modified(line) == str_len(trim_end(line)) # str_len(line)

\* Mutant of trim_loop: `modified = trimmed.len() != line.len()`, so that
\* only the last line decides the flag.
RECURSIVE trim_loop_last_line(_, _, _, _)
trim_loop_last_line(ls, i, output, modified) ==
  IF i > Len(ls) THEN [content |-> output, modified |-> modified]
  ELSE trim_loop_last_line(ls, i + 1,
                           Append(output \o trim_end(ls[i]), LF),
                           line_modified(ls[i]))

\* The for loop (main.rs:268-275) from line i on, with the output and the
\* modified flag accumulated so far.
RECURSIVE trim_loop(_, _, _, _)
trim_loop(ls, i, output, modified) ==
  IF i > Len(ls) THEN [content |-> output, modified |-> modified]
  ELSE trim_loop(ls, i + 1,
                 Append(output \o trim_end(ls[i]), LF),
                 modified \/ line_modified(ls[i]))

\* Mutant of pop_added_newline: the added '\n' is never removed.
pop_never(content, output) == output

\* The final adjustment (main.rs:278-280): pop the '\n' the loop added when
\* the input did not end with one.
pop_added_newline(content, output) ==
  IF ~ends_with(content, LF) /\ output # <<>> THEN Front(output) ELSE output

\* trim_trailing_whitespace (main.rs:264-283): a TrimResult.
trim_trailing_whitespace(content) ==
  LET r == trim_loop(lines(content), 1, <<>>, FALSE)
  IN  [content |-> pop_added_newline(content, r.content),
       modified |-> r.modified]

\* ------------------------------------------------------------------ UTF-8
\* The bytes files are built from: ASCII 'a', ' ', '\n', '\r', the two bytes
\* 0xC2 0xA0 of U+00A0, and 0xFF, which no UTF-8 text contains
\* (the test's binary content, main.rs:693).
Byte == {97, 32, 10, 13, 194, 160, 255}

\* All byte strings of at most n bytes.
ByteStrings(n) == UNION {[1..k -> Byte] : k \in 0..n}

\* Longest file content (bytes).
MaxFileLen == 3

\* Mutant of from_utf8: String::from_utf8_lossy with the invalid bytes
\* dropped, which never fails.
RECURSIVE from_utf8_lossy(_)
from_utf8_lossy(bytes) ==
  IF bytes = <<>> THEN [ok |-> TRUE, text |-> <<>>]
  ELSE LET rest == from_utf8_lossy(Tail(bytes)) IN
    [ok |-> TRUE,
     text |-> (IF Head(bytes) < 128 THEN <<Head(bytes)>> ELSE <<>>) \o rest.text]

\* std::str::from_utf8 (main.rs:311) on one- and two-byte sequences: the
\* decoded text, or invalid. Lead bytes of longer sequences (0xE0..0xF4)
\* are outside Byte.
RECURSIVE from_utf8(_)
from_utf8(bytes) ==
  IF bytes = <<>> THEN [ok |-> TRUE, text |-> <<>>]
  ELSE LET b == Head(bytes) IN
    IF b < 128 THEN
      LET rest == from_utf8(Tail(bytes))
      IN  [ok |-> rest.ok, text |-> <<b>> \o rest.text]
    ELSE IF b >= 194 /\ b <= 223 /\ Len(bytes) >= 2
            /\ bytes[2] >= 128 /\ bytes[2] <= 191 THEN
      LET rest == from_utf8(Tail(Tail(bytes)))
      IN  [ok |-> rest.ok,
           text |-> <<(b - 192) * 64 + (bytes[2] - 128)>> \o rest.text]
    ELSE [ok |-> FALSE, text |-> <<>>]

\* str::as_bytes (main.rs:337): the UTF-8 encoding of a text below U+0800.
RECURSIVE as_bytes(_)
as_bytes(text) ==
  IF text = <<>> THEN <<>>
  ELSE LET c == Head(text) IN
    (IF c < 128 THEN <<c>> ELSE <<192 + (c \div 64), 128 + (c % 64)>>)
      \o as_bytes(Tail(text))

\* ------------------------------------------------------------- filesystem
\* The target of the call, `path` (main.rs:286), and the file a symlink at
\* that path refers to (main.rs:728-732). A path is its parent directory and
\* the pieces of its file name.
TargetPath == [parent |-> "dir", name |-> <<"test.txt">>]
LinkDest == [parent |-> "dir", name |-> <<"original.txt">>]
NoPath == [parent |-> "", name |-> <<>>]

\* process::id() (main.rs:237) of the one invocation.
process_id == 1
\* Largest value the clock read of main.rs:233 returns.
MaxClock == 2
Timestamps == 1..MaxClock

\* Mutant of generate_temp_path: the process id is left out of the name.
generate_temp_path_no_pid(original, pid, timestamp) ==
  [parent |-> original.parent,
   name |-> <<".">> \o original.name
              \o <<".", ToString(timestamp), ".tmp">>]

\* generate_temp_path (main.rs:231-246), with the process id and the clock
\* read as inputs: format!(".{}.{}.{}.tmp", name, pid, timestamp) in the
\* directory of the original.
generate_temp_path(original, pid, timestamp) ==
  [parent |-> original.parent,
   name |-> <<".">> \o original.name
              \o <<".", ToString(pid), ".", ToString(timestamp), ".tmp">>]

TempPaths == {generate_temp_path(TargetPath, process_id, t) : t \in Timestamps}
Paths == {TargetPath, LinkDest} \cup TempPaths

\* Permission bits of the files: 0o644 and the test's 0o754 (main.rs:677).
Modes == {420, 492}
\* Mode of a file made by File::create: 0o666 under the usual umask 0o022.
CreateMode == 420

\* A directory entry. synced: the data has reached durable storage.
Absent == [kind |-> "absent", data |-> <<>>, mode |-> 0, mtime |-> 0,
           synced |-> TRUE, link |-> NoPath]
RegularFile(data, mode, mtime, synced) ==
  [kind |-> "file", data |-> data, mode |-> mode, mtime |-> mtime,
   synced |-> synced, link |-> NoPath]
Symlink(dest) ==
  [kind |-> "symlink", data |-> <<>>, mode |-> 511, mtime |-> 0,
   synced |-> TRUE, link |-> dest]
Special(kind) ==
  [kind |-> kind, data |-> <<>>, mode |-> 493, mtime |-> 0,
   synced |-> TRUE, link |-> NoPath]

\* The file-type bits of st_mode (S_IFREG, S_IFLNK, S_IFDIR, S_IFIFO).
type_bits(kind) ==
  CASE kind = "file" -> 32768
    [] kind = "symlink" -> 40960
    [] kind = "dir" -> 16384
    [] OTHER -> 4096

VARIABLES
  input,     \* the text handed to trim_trailing_whitespace on its own
  tpc,       \* "call" before that call, "ret" after it
  tres,      \* the TrimResult it returned
  tres2,     \* the TrimResult of a second call, on tres.content
  fs,        \* the directory: Paths -> entry
  fs0,       \* the directory when the invocation started
  pc,        \* the position of the invocation
  verbose,   \* config.verbose
  original_metadata,  \* the Metadata captured on main.rs:288
  opened,    \* the entry File::open resolved to (main.rs:306)
  buffer,    \* the bytes read (main.rs:304-308)
  result,    \* the TrimResult of main.rs:321
  temp_path, \* main.rs:325
  temp_file, \* the entry File::create opened for writing (main.rs:336)
  written,   \* bytes of result.content write_all has written so far
  ret,       \* "none", "Ok" or "Err": what the call returned
  trace,     \* the filesystem calls made that open, read or change a file
  stdout,    \* println! messages
  stderr,    \* eprintln! messages
  root,      \* the directory given to process_folder: its name and kind
  levels,    \* the tree below the root, one record per nesting level
  levels0,   \* that tree when the walk started
  stack,     \* the process_folder calls in progress, innermost last
  visited,   \* the levels whose file was handed to process_file, in order
  listed,    \* the levels whose directory fs::read_dir has listed
  walk_log,  \* the failures of the walk's own calls: <<call, level, entry>>
  generated, \* the calls of generate_temp_path made: pid, clock read, path
  foreign,   \* the paths at which another actor has put an entry
  overwritten, \* another actor has written to the target after the read
  procs      \* two invocations at once: the locals and position of each

trim_vars == <<input, tpc, tres, tres2>>
walk_vars == <<root, levels, levels0, stack, visited, listed, walk_log>>
name_vars == <<generated>>
env_vars == <<foreign, overwritten>>
two_vars == <<procs>>
file_vars == <<fs, fs0, pc, verbose, original_metadata, opened, buffer,
               result, temp_path, temp_file, written, ret, trace, stdout, stderr>>
vars == <<trim_vars, file_vars, walk_vars, name_vars, env_vars, two_vars>>

NoMetadata == [kind |-> "none", mode |-> 0]
NoResult == [content |-> <<>>, modified |-> FALSE]

\* Mutant of symlink_metadata: fs::metadata, which follows symlinks.
metadata_following(dir, path) ==
  LET p == IF dir[path].kind = "symlink" THEN dir[path].link ELSE path
  IN  [kind |-> dir[p].kind, mode |-> type_bits(dir[p].kind) + dir[p].mode]

\* fs::symlink_metadata (main.rs:143, 288): the entry itself, never the
\* file a symlink refers to. mode() is st_mode, type bits included.
symlink_metadata(dir, path) ==
  [kind |-> dir[path].kind, mode |-> type_bits(dir[path].kind) + dir[path].mode]

\* Path resolution of the calls that follow symlinks (open, exists, chmod).
resolve(dir, path) ==
  IF dir[path].kind = "symlink" THEN dir[path].link ELSE path

\* Path::exists (main.rs:328): follows symlinks; a dangling link is absent.
exists(dir, path) ==
  dir[resolve(dir, path)].kind # "absent"

\* ---------------------------------------------------------------- Init
\* A temporary file left at the first temporary path by an earlier run.
StaleTemp == RegularFile(<<>>, CreateMode, 0, TRUE)

\* The directories an invocation can start in: the target is a regular
\* file, a symlink to a regular file, a directory, a FIFO, or missing.
InitialDirs ==
  {[p \in Paths |->
      IF p = TargetPath THEN target
      ELSE IF p = LinkDest THEN dest
      ELSE IF p = generate_temp_path(TargetPath, process_id, 1) THEN stale
      ELSE Absent] :
    <<target, dest>> \in
       {<<RegularFile(d, m, 0, TRUE), Absent>> :
            d \in ByteStrings(MaxFileLen), m \in Modes}
       \cup {<<Symlink(LinkDest), RegularFile(d, m, 0, TRUE)>> :
            d \in ByteStrings(MaxFileLen), m \in Modes}
       \cup {<<Special("dir"), Absent>>, <<Special("fifo"), Absent>>,
             <<Absent, Absent>>},
    stale \in {Absent, StaleTemp}}

TrimIdle == input = <<>> /\ tpc = "idle" /\ tres = NoResult /\ tres2 = NoResult

\* No directory walk runs.
NoRoot == [name |-> <<>>, kind |-> "none"]
WalkIdle ==
  /\ root = NoRoot
  /\ levels = <<>>
  /\ levels0 = <<>>
  /\ stack = <<>>
  /\ visited = <<>>
  /\ listed = {}
  /\ walk_log = {}

\* No call of generate_temp_path on its own has been made.
NameIdle == generated = <<>>

\* No other actor has touched the directory.
\* process::id() of a second invocation running at the same time.
other_process_id == 2
Pids == {process_id, other_process_id}

\* The locals of an invocation that has not started.
NoProc ==
  [pc |-> "idle", original_metadata |-> NoMetadata, opened |-> Absent,
   buffer |-> <<>>, result |-> NoResult, temp_path |-> NoPath,
   temp_file |-> NoPath, written |-> 0, ret |-> "none"]

EnvIdle ==
  /\ foreign = {}
  /\ overwritten = FALSE
  /\ procs = [p \in Pids |-> NoProc]

\* An invocation of the tool on TargetPath is about to start.
InitFile ==
  /\ TrimIdle
  /\ WalkIdle
  /\ NameIdle
  /\ EnvIdle
  /\ fs \in InitialDirs
  /\ fs0 = fs
  /\ pc \in {"run", "process_file"}
  /\ verbose \in BOOLEAN
  /\ original_metadata = NoMetadata
  /\ opened = NoPath
  /\ buffer = <<>>
  /\ result = NoResult
  /\ temp_path = NoPath
  /\ temp_file = NoPath
  /\ written = 0
  /\ ret = "none"
  /\ trace = <<>>
  /\ stdout = <<>>
  /\ stderr = <<>>

\* trim_trailing_whitespace is about to be called on a text of its own, as
\* the unit tests do (main.rs:461-577); no invocation runs.
InitTrim ==
  /\ input \in Strings(MaxLen)
  /\ tpc = "call"
  /\ tres = NoResult
  /\ tres2 = NoResult
  /\ WalkIdle
  /\ NameIdle
  /\ EnvIdle
  /\ fs = [p \in Paths |-> Absent]
  /\ fs0 = fs
  /\ pc = "idle"
  /\ verbose = FALSE
  /\ original_metadata = NoMetadata
  /\ opened = NoPath
  /\ buffer = <<>>
  /\ result = NoResult
  /\ temp_path = NoPath
  /\ temp_file = NoPath
  /\ written = 0
  /\ ret = "none"
  /\ trace = <<>>
  /\ stdout = <<>>
  /\ stderr = <<>>

\* ---------------------------------------------------------- directory tree
\* A file name is the sequence of its pieces; InvalidBytes stands for bytes
\* that are not UTF-8, which OsStr::to_str refuses (main.rs:161).
InvalidBytes == "<FF>"
NoName == <<>>

\* IGNORED_DIRS (main.rs:25-36).
IGNORED_DIRS ==
  {<<".", "git">>, <<".", "svn">>, <<".", "hg">>, <<"node_modules">>,
   <<"target">>, <<"__pycache__">>, <<".", "venv">>, <<"venv">>,
   <<".", "idea">>, <<".", "vscode">>}

\* OsStr::to_str (main.rs:161): Some only for a name that is UTF-8.
to_str_ok(name) == \A k \in 1..Len(name) : name[k] # InvalidBytes

\* Mutant of should_ignore_dir: only the listed names are ignored.
should_ignore_listed(name) == to_str_ok(name) /\ name \in IGNORED_DIRS

\* should_ignore_dir (main.rs:159-164) on the file name of the path.
should_ignore_dir(name) ==
  /\ name # NoName
  /\ to_str_ok(name)
  /\ (name \in IGNORED_DIRS \/ Head(name) = ".")

\* The names of the subdirectories of the trees walked, the names a root
\* is given by, and what the one file of a directory can be: a regular
\* file with trailing whitespace (main.rs:752) or a symlink.
DirNames ==
  {<<"src">>, <<"target">>, <<".", "hidden">>, <<".", InvalidBytes>>}
RootNames == {<<"project">>, <<".", "git">>}
DirtyFile == RegularFile(<<32, 10>>, CreateMode, 0, TRUE)
FolderFiles == {DirtyFile, Symlink(LinkDest)}

\* Largest number of directories nested below the root.
MaxDepth == 2

\* The trees: level 1 is the root directory, level i + 1 the one
\* subdirectory of level i, named levels[i].dir; every level has one file
\* slot, named "file.txt".
Trees(depth) ==
  UNION {{t \in [1..n -> [file : FolderFiles, dir : DirNames \cup {NoName}]] :
             \A i \in 1..n : (t[i].dir = NoName) <=> (i = n)} :
         n \in 1..(depth + 1)}

\* process_folder is about to be called on the root (main.rs:154).
InitFolder ==
  /\ TrimIdle
  /\ NameIdle
  /\ EnvIdle
  /\ root \in [name : RootNames, kind : {"dir", "symlink", "file", "absent"}]
  /\ levels \in (CASE root.kind = "dir" -> Trees(MaxDepth)
                   [] root.kind = "symlink" -> {<<[file |-> DirtyFile, dir |-> NoName]>>}
                   [] OTHER -> {<<>>})
  /\ levels0 = levels
  /\ stack = <<[level |-> 1, state |-> "enter", pending |-> {}]>>
  /\ visited = <<>>
  /\ listed = {}
  /\ walk_log = {}
  /\ fs = [p \in Paths |-> Absent]
  /\ fs0 = fs
  /\ pc = "walk"
  /\ verbose \in BOOLEAN
  /\ original_metadata = NoMetadata
  /\ opened = NoPath
  /\ buffer = <<>>
  /\ result = NoResult
  /\ temp_path = NoPath
  /\ temp_file = NoPath
  /\ written = 0
  /\ ret = "none"
  /\ trace = <<>>
  /\ stdout = <<>>
  /\ stderr = <<>>

\* Number of calls of generate_temp_path followed on their own.
MaxCalls == 2

\* generate_temp_path is about to be called for the same target, by one
\* process or by two, as in test_generate_temp_path_uniqueness
\* (main.rs:636-644).
InitNaming ==
  /\ TrimIdle
  /\ WalkIdle
  /\ EnvIdle
  /\ generated = <<>>
  /\ fs = [p \in Paths |-> Absent]
  /\ fs0 = fs
  /\ pc = "naming"
  /\ verbose = FALSE
  /\ original_metadata = NoMetadata
  /\ opened = NoPath
  /\ buffer = <<>>
  /\ result = NoResult
  /\ temp_path = NoPath
  /\ temp_file = NoPath
  /\ written = 0
  /\ ret = "none"
  /\ trace = <<>>
  /\ stdout = <<>>
  /\ stderr = <<>>

Init == InitFile \/ InitTrim \/ InitNaming

\* -------------------------------------------------------------- actions
\* let result = trim_trailing_whitespace(input) (main.rs:464).
TrimCall ==
  /\ tpc = "call"
  /\ tres' = trim_trailing_whitespace(input)
  /\ tpc' = "ret"
  /\ UNCHANGED <<input, tres2, two_vars, file_vars, walk_vars, name_vars, env_vars>>

locals == <<original_metadata, opened, buffer, result, temp_path, temp_file,
            written>>

\* A second call, on the content the first returned:
\* trim_trailing_whitespace(&result.content).
TrimAgain ==
  /\ tpc = "ret"
  /\ tres2' = trim_trailing_whitespace(tres.content)
  /\ tpc' = "ret2"
  /\ UNCHANGED <<input, tres, two_vars, file_vars, walk_vars, name_vars, env_vars>>

\* One call generate_temp_path(original) (main.rs:638, 640) by a process:
\* its pid is process::id(), its timestamp whatever the clock returns.
GenerateCall ==
  /\ pc = "naming"
  /\ Len(generated) < MaxCalls
  /\ \E pid \in Pids, timestamp \in Timestamps :
       generated' = Append(generated,
          [pid |-> pid, timestamp |-> timestamp,
           path |-> generate_temp_path(TargetPath, pid, timestamp)])
  /\ UNCHANGED <<trim_vars, two_vars, file_vars, walk_vars, env_vars>>

\* `return r`, printing out and err on the way.
Return(r, out, err) ==
  /\ pc' = "done"
  /\ ret' = r
  /\ stdout' = stdout \o out
  /\ stderr' = stderr \o err

\* Mode::File of run (main.rs:141-153).
RunFile ==
  /\ pc = "run"
  /\ UNCHANGED <<trim_vars, two_vars, walk_vars, name_vars, env_vars, fs, fs0, verbose, locals, trace>>
  /\ IF fs[TargetPath].kind = "absent" THEN
       Return("NotFound", <<>>, <<>>)
     ELSE IF symlink_metadata(fs, TargetPath).kind = "symlink" THEN
       IF verbose THEN Return("Ok", <<"Skipped (symlink)">>, <<>>)
       ELSE Return("Ok", <<>>, <<"Warning: Ignoring symlink">>)
     ELSE
       /\ pc' = "process_file"
       /\ UNCHANGED <<ret, stdout, stderr>>

\* process_file up to its first read of the file (main.rs:286-302).
CheckMetadata ==
  /\ pc = "process_file"
  /\ UNCHANGED <<trim_vars, two_vars, walk_vars, name_vars, env_vars, fs, fs0, verbose, opened, buffer, result,
                 temp_path, temp_file, written, trace>>
  /\ IF fs[TargetPath].kind = "absent" THEN
       /\ Return("NotFound", <<>>, <<>>)
       /\ UNCHANGED original_metadata
     ELSE
       /\ original_metadata' = symlink_metadata(fs, TargetPath)
       /\ IF original_metadata'.kind = "symlink" THEN
            Return("Ok", IF verbose THEN <<"Skipped (symlink)">> ELSE <<>>, <<>>)
          ELSE IF original_metadata'.kind # "file" THEN
            Return("Ok", <<>>, <<>>)
          ELSE
            /\ pc' = "open"
            /\ stdout' = stdout \o (IF verbose THEN <<"Checking">> ELSE <<>>)
            /\ UNCHANGED <<ret, stderr>>

\* File::open(path)? (main.rs:306): follows a symlink at the path.
Open ==
  /\ pc = "open"
  /\ UNCHANGED <<trim_vars, two_vars, walk_vars, name_vars, env_vars, fs, fs0, verbose, original_metadata, buffer,
                 result, temp_path, temp_file, written>>
  /\ \E ok \in BOOLEAN :
       IF ok /\ exists(fs, TargetPath) THEN
         /\ opened' = resolve(fs, TargetPath)
         /\ trace' = Append(trace, "open")
         /\ pc' = "read"
         /\ UNCHANGED <<ret, stdout, stderr>>
       ELSE
         /\ Return("IoError", <<>>, <<>>)
         /\ UNCHANGED <<opened, trace>>

\* file.read_to_end(&mut buffer)? (main.rs:307).
ReadToEnd ==
  /\ pc = "read"
  /\ UNCHANGED <<trim_vars, two_vars, walk_vars, name_vars, env_vars, fs, fs0, verbose, original_metadata, opened,
                 result, temp_path, temp_file, written>>
  /\ trace' = Append(trace, "read")
  /\ \E ok \in BOOLEAN :
       IF ok /\ fs[opened].kind = "file" THEN
         /\ buffer' = fs[opened].data
         /\ pc' = "trim"
         /\ UNCHANGED <<ret, stdout, stderr>>
       ELSE
         /\ Return("IoError", <<>>, <<>>)
         /\ UNCHANGED buffer

\* Mutant of should_write: the file is rewritten whatever the flag says.
should_write_always(r) == TRUE

\* if result.modified (main.rs:323): whether the file is rewritten.
should_write(r) == r.modified

\* The binary check, the transformer and the branch on result.modified
\* (main.rs:311-323, 356-360).
Trim ==
  /\ pc = "trim"
  /\ UNCHANGED <<trim_vars, two_vars, walk_vars, name_vars, env_vars, fs, fs0, verbose, original_metadata, opened,
                 buffer, temp_path, temp_file, written, trace>>
  /\ LET content == from_utf8(buffer) IN
       IF ~content.ok THEN
         /\ Return("Ok", IF verbose THEN <<"Skipped (binary)">> ELSE <<>>, <<>>)
         /\ UNCHANGED result
       ELSE
         /\ result' = trim_trailing_whitespace(content.text)
         /\ IF should_write(result') THEN
              /\ pc' = "temp_path"
              /\ UNCHANGED <<ret, stdout, stderr>>
            ELSE
              Return("Ok", IF verbose THEN <<"Unchanged">> ELSE <<>>, <<>>)

\* let temp_path = generate_temp_path(path) (main.rs:325); the clock read
\* of main.rs:233 returns any of the Timestamps.
GenerateTempPath ==
  /\ pc = "temp_path"
  /\ UNCHANGED <<trim_vars, two_vars, walk_vars, name_vars, env_vars, fs, fs0, verbose, original_metadata, opened,
                 buffer, result, temp_file, written, ret, trace, stdout,
                 stderr>>
  /\ \E timestamp \in Timestamps :
       temp_path' = generate_temp_path(TargetPath, process_id, timestamp)
  /\ pc' = "exists"

\* if temp_path.exists() { return Err(AlreadyExists) } (main.rs:328-333).
CheckExists ==
  /\ pc = "exists"
  /\ UNCHANGED <<trim_vars, two_vars, walk_vars, name_vars, env_vars, fs, fs0, verbose, locals, trace>>
  /\ IF exists(fs, temp_path) THEN
       Return("AlreadyExists", <<>>, <<>>)
     ELSE
       /\ pc' = "create"
       /\ UNCHANGED <<ret, stdout, stderr>>

\* File::create(&temp_path)? (main.rs:336): creates the file, or truncates
\* the one the path leads to.
Create ==
  /\ pc = "create"
  /\ UNCHANGED <<trim_vars, two_vars, walk_vars, name_vars, env_vars, fs0, verbose, original_metadata, opened, buffer,
                 result, temp_path, written>>
  /\ \E ok \in BOOLEAN :
       IF ok THEN
         LET f == resolve(fs, temp_path) IN
           /\ temp_file' = f
           /\ fs' = [fs EXCEPT ![f] =
                 IF fs[f].kind = "absent"
                 THEN RegularFile(<<>>, CreateMode, 1, FALSE)
                 ELSE [fs[f] EXCEPT !.data = <<>>, !.mtime = 1,
                                    !.synced = FALSE]]
           /\ trace' = Append(trace, "create")
           /\ pc' = "write"
           /\ UNCHANGED <<ret, stdout, stderr>>
       ELSE
         /\ Return("IoError", <<>>, <<>>)
         /\ UNCHANGED <<fs, temp_file, trace>>

\* temp_file.write_all(result.content.as_bytes())? (main.rs:337): a loop of
\* write calls, each taking some of the remaining bytes; a failing call
\* (k = 0) returns the error with the temporary file as it then is.
WriteAll ==
  /\ pc = "write"
  /\ UNCHANGED <<trim_vars, two_vars, walk_vars, name_vars, env_vars, fs0, verbose, original_metadata, opened, buffer,
                 result, temp_path, temp_file>>
  /\ LET bytes == as_bytes(result.content) IN
       IF written = Len(bytes) THEN
         /\ pc' = "sync"
         /\ UNCHANGED <<fs, written, ret, trace, stdout, stderr>>
       ELSE
         \E k \in 0..(Len(bytes) - written) :
           IF k = 0 THEN
             /\ Return("IoError", <<>>, <<>>)
             /\ trace' = Append(trace, "write")
             /\ UNCHANGED <<fs, written>>
           ELSE
             /\ fs' = [fs EXCEPT ![temp_file].data =
                         @ \o SubSeq(bytes, written + 1, written + k),
                       ![temp_file].synced = FALSE]
             /\ written' = written + k
             /\ trace' = Append(trace, "write")
             /\ pc' = IF written' = Len(bytes) THEN "sync" ELSE "write"
             /\ UNCHANGED <<ret, stdout, stderr>>

\* Mutant of synced_file: the sync_all call is left out.
synced_file_skipped(e) == e

\* What sync_all does to the file when it succeeds.
synced_file(e) == [e EXCEPT !.synced = TRUE]

\* temp_file.sync_all()? (main.rs:338).
SyncAll ==
  /\ pc = "sync"
  /\ UNCHANGED <<trim_vars, two_vars, walk_vars, name_vars, env_vars, fs0, verbose, locals>>
  /\ trace' = Append(trace, "sync_all")
  /\ \E ok \in BOOLEAN :
       IF ok THEN
         /\ fs' = [fs EXCEPT ![temp_file] = synced_file(@)]
         /\ pc' = "permissions"
         /\ UNCHANGED <<ret, stdout, stderr>>
       ELSE
         /\ Return("IoError", <<>>, <<>>)
         /\ UNCHANGED fs

\* Mutant of remove_file: the cleanup removes the target, not the
\* temporary file (fs::remove_file(path)).
remove_file_target(dir, path, ok) ==
  IF ok THEN [dir EXCEPT ![[parent |-> "dir", name |-> <<"test.txt">>]] =
                [kind |-> "absent", data |-> <<>>, mode |-> 0, mtime |-> 0,
                 synced |-> TRUE, link |-> [parent |-> "", name |-> <<>>]]]
  ELSE dir

\* let _ = fs::remove_file(&temp_path) (main.rs:344, 351): the directory
\* after the call; the call's own failure is ignored.
remove_file(dir, path, ok) ==
  IF ok THEN [dir EXCEPT ![path] = Absent] ELSE dir

\* The mode chmod gives a file for Permissions::from_mode(mode): the
\* permission bits of mode, without its file-type bits.
chmod_mode(mode) == mode % 4096

\* Mutant of preserve_permissions: the temporary file keeps the mode
\* File::create gave it.
preserve_permissions_skipped(dir, path, metadata) == dir

\* preserve_permissions (main.rs:249-253): the directory after a
\* successful fs::set_permissions(temp_path, from_mode(metadata.mode())).
preserve_permissions(dir, path, metadata) ==
  [dir EXCEPT ![resolve(dir, path)].mode = chmod_mode(metadata.mode)]

\* main.rs:342-346.
PreservePermissions ==
  /\ pc = "permissions"
  /\ UNCHANGED <<trim_vars, two_vars, walk_vars, name_vars, env_vars, fs0, verbose, locals>>
  /\ \E ok \in BOOLEAN :
       IF ok /\ exists(fs, temp_path) THEN
         /\ fs' = preserve_permissions(fs, temp_path, original_metadata)
         /\ trace' = Append(trace, "set_permissions")
         /\ pc' = "rename"
         /\ UNCHANGED <<ret, stdout, stderr>>
       ELSE
         /\ \E removed \in BOOLEAN : fs' = remove_file(fs, temp_path, removed)
         /\ trace' = trace \o <<"set_permissions", "remove_file">>
         /\ Return("IoError", <<>>, <<>>)

\* Mutant of rename: an entry already at `to` is kept (RENAME_NOREPLACE).
rename_noreplace(dir, from, to) ==
  IF dir[to].kind = "absent"
  THEN [dir EXCEPT ![to] = dir[from], ![from] = dir[to]]
  ELSE dir

\* fs::rename(from, to) when it succeeds: the entry moves, replacing
\* whatever was at `to`, in one step.
rename(dir, from, to) == [dir EXCEPT ![to] = dir[from], ![from] = Absent]

\* main.rs:349-355.
Rename ==
  /\ pc = "rename"
  /\ UNCHANGED <<trim_vars, two_vars, walk_vars, name_vars, env_vars, fs0, verbose, locals>>
  /\ \E ok \in BOOLEAN :
       IF ok /\ fs[temp_path].kind # "absent" THEN
         /\ fs' = rename(fs, temp_path, TargetPath)
         /\ trace' = Append(trace, "rename")
         /\ Return("Ok", <<"Processed">>, <<>>)
       ELSE
         /\ \E removed \in BOOLEAN : fs' = remove_file(fs, temp_path, removed)
         /\ trace' = trace \o <<"rename", "remove_file">>
         /\ Return("IoError", <<>>, <<>>)

\* The tool is run again on a file its first run has rewritten: a new call
\* of process_file (main.rs:286) on the directory as the first run left it.
RunAgain ==
  /\ pc = "done" /\ ret = "Ok"
  /\ \E i \in DOMAIN trace : trace[i] = "rename"
  /\ fs0[TargetPath].mtime = 0
  /\ pc' = "process_file"
  /\ fs0' = fs
  /\ original_metadata' = NoMetadata
  /\ opened' = NoPath
  /\ buffer' = <<>>
  /\ result' = NoResult
  /\ temp_path' = NoPath
  /\ temp_file' = NoPath
  /\ written' = 0
  /\ ret' = "none"
  /\ trace' = <<>>
  /\ stdout' = <<>>
  /\ stderr' = <<>>
  /\ UNCHANGED <<trim_vars, two_vars, walk_vars, name_vars, env_vars, fs, verbose>>

\* The positions of an invocation on a single file that is still running
\* or has returned.
FilePositions ==
  {"run", "process_file", "open", "read", "trim", "temp_path", "exists",
   "create", "write", "sync", "permissions", "rename", "done"}

\* ------------------------------------------------------------------ crash
Prefixes(d) == {SubSeq(d, 1, k) : k \in 0..Len(d)}

\* What a power loss can leave of an entry: data that was not synced may
\* have reached the disk only in part.
Durable(e) ==
  IF e.kind = "file" /\ ~e.synced
  THEN {[e EXCEPT !.data = d, !.synced = TRUE] : d \in Prefixes(e.data)}
  ELSE {e}

\* The machine stops at any point of process_file or after it (power loss):
\* no directory is synced, so each entry is the one before the call or the
\* current one, with the data that reached the disk.
Crash ==
  /\ pc \in FilePositions
  /\ pc' = "crashed"
  /\ \E t \in {fs0[TargetPath]} \cup Durable(fs[TargetPath]) :
     \E u \in (IF temp_path = NoPath THEN {Absent}
               ELSE {fs0[temp_path]} \cup Durable(fs[temp_path])) :
       fs' = [p \in Paths |->
                IF p = TargetPath THEN t
                ELSE IF p = temp_path THEN u
                ELSE fs[p]]
  /\ UNCHANGED <<trim_vars, two_vars, walk_vars, name_vars, env_vars, fs0, verbose, locals, ret, trace, stdout, stderr>>

\* The steps of run and process_file on a single file.
StepsFile ==
  \/ RunFile
  \/ CheckMetadata
  \/ Open
  \/ ReadToEnd
  \/ Trim
  \/ GenerateTempPath
  \/ CheckExists
  \/ Create
  \/ WriteAll
  \/ SyncAll
  \/ PreservePermissions
  \/ Rename

\* One invocation on a single file, a second run and a power loss included.
NextFile ==
  \/ StepsFile
  \/ RunAgain
  \/ Crash

\* fs::symlink_metadata(&path) (main.rs:169, 195) of an entry e: the entry
\* itself, in a directory where a symlink leads to a regular file or, for
\* the root, to a directory.
entry_metadata(e, dest) ==
  symlink_metadata([p \in {TargetPath, LinkDest} |->
                      IF p = TargetPath THEN e ELSE dest], TargetPath)

\* What process_file (main.rs:286-361) does to the entry e it is called
\* on, as the set of its possible results: what it returns, the entry
\* afterwards and what it prints.
process_file_outcomes(e, verb) ==
  LET checking == IF verb THEN <<"Checking">> ELSE <<>>
      meta == entry_metadata(e, DirtyFile)
      text == from_utf8(e.data)
      r == trim_trailing_whitespace(text.text)
      failed(errs) == {[ret |-> x, entry |-> e, out |-> checking] : x \in errs}
  IN  IF meta.kind = "symlink" THEN
        {[ret |-> "Ok", entry |-> e,
          out |-> IF verb THEN <<"Skipped (symlink)">> ELSE <<>>]}
      ELSE IF meta.kind # "file" THEN
        {[ret |-> "Ok", entry |-> e, out |-> <<>>]}
      ELSE failed({"IoError"}) \cup
        (IF ~text.ok THEN
           {[ret |-> "Ok", entry |-> e,
             out |-> checking \o (IF verb THEN <<"Skipped (binary)">> ELSE <<>>)]}
         ELSE IF ~should_write(r) THEN
           {[ret |-> "Ok", entry |-> e,
             out |-> checking \o (IF verb THEN <<"Unchanged">> ELSE <<>>)]}
         ELSE
           failed({"AlreadyExists"}) \cup
           {[ret |-> "Ok",
             entry |-> RegularFile(as_bytes(r.content),
                                   chmod_mode(meta.mode), 1, TRUE),
             out |-> checking \o <<"Processed">>]})

\* Mutant of after_process_file: the error is propagated with `?`.
after_process_file_propagate(r) ==
  IF r \in {"NotFound", "AlreadyExists", "IoError", "InvalidInput"}
  THEN "return" ELSE "continue"

\* What the walk does with the result of process_file (main.rs:221-223):
\* an Err is printed as a warning and the loop goes on.
after_process_file(r) == "continue"

\* The directory process_folder is called on at level i, as an entry.
folder_entry(i) ==
  IF i > 1 THEN Special("dir")
  ELSE CASE root.kind = "dir" -> Special("dir")
         [] root.kind = "symlink" -> Symlink(LinkDest)
         [] root.kind = "file" -> DirtyFile
         [] OTHER -> Absent

Top == stack[Len(stack)]

\* Mutant of ReturnFolder: the caller takes an Err of the recursive call
\* as it takes an Ok and goes on with its loop.
ReturnFolder_caller_continues(r, out) ==
  /\ stdout' = stdout \o out
  /\ IF Len(stack) > 1
     THEN /\ stack' = Front(stack)
          /\ UNCHANGED <<pc, ret>>
     ELSE /\ stack' = <<>>
          /\ pc' = "walked"
          /\ ret' = r

\* process_folder returns r to its caller: an Err goes up through every
\* `?` (main.rs:219) to run, an Ok resumes the caller's loop.
ReturnFolder(r, out) ==
  /\ stdout' = stdout \o out
  /\ IF r = "Ok" /\ Len(stack) > 1
     THEN /\ stack' = Front(stack)
          /\ UNCHANGED <<pc, ret>>
     ELSE /\ stack' = <<>>
          /\ pc' = "walked"
          /\ ret' = r

\* process_folder up to the listing (main.rs:167-190).
EnterFolder ==
  /\ pc = "walk"
  /\ Top.state = "enter"
  /\ LET i == Top.level
         meta == entry_metadata(folder_entry(i), Special("dir"))
     IN  /\ UNCHANGED <<levels, visited, stderr>>
         /\ IF meta.kind = "absent" THEN
              /\ ReturnFolder("NotFound", <<>>)
              /\ UNCHANGED <<listed, walk_log>>
            ELSE IF meta.kind = "symlink" THEN
              /\ ReturnFolder("Ok", IF verbose THEN <<"Skipped (symlink)">> ELSE <<>>)
              /\ UNCHANGED <<listed, walk_log>>
            ELSE IF meta.kind # "dir" THEN
              /\ ReturnFolder("InvalidInput", <<>>)
              /\ UNCHANGED <<listed, walk_log>>
            ELSE
              \/ /\ ReturnFolder("IoError", IF verbose THEN <<"Scanning">> ELSE <<>>)
                 /\ walk_log' = walk_log \cup {<<"read_dir", i, "dir">>}
                 /\ UNCHANGED listed
              \/ /\ stack' = [stack EXCEPT ![Len(stack)] =
                      [level |-> i, state |-> "iter",
                       pending |->
                         (IF levels[i].file.kind # "absent" THEN {"file"} ELSE {})
                         \cup (IF levels[i].dir # NoName THEN {"dir"} ELSE {})]]
                 /\ listed' = listed \cup {i}
                 /\ stdout' = stdout \o (IF verbose THEN <<"Scanning">> ELSE <<>>)
                 /\ UNCHANGED <<pc, ret, walk_log>>
  /\ UNCHANGED <<trim_vars, two_vars, name_vars, env_vars, root, levels0, fs, fs0,
                 verbose, locals, trace>>

\* One iteration of the loop over the entries (main.rs:190-225), in the
\* order read_dir yields them, which is any order.
VisitEntry ==
  /\ pc = "walk"
  /\ Top.state = "iter"
  /\ \E e \in Top.pending :
       LET i == Top.level
           rest == [stack EXCEPT ![Len(stack)].pending = @ \ {e}]
           entry == IF e = "file" THEN levels[i].file ELSE Special("dir")
           meta == entry_metadata(entry, DirtyFile)
       IN  \/ \* entry? fails (main.rs:191)
              /\ ReturnFolder("IoError", <<>>)
              /\ walk_log' = walk_log \cup {<<"entry", i, e>>}
              /\ UNCHANGED <<levels, visited, stderr>>
           \/ \* symlink_metadata fails (main.rs:195-201)
              /\ stack' = rest
              /\ stderr' = Append(stderr, "Warning: Could not read metadata")
              /\ walk_log' = walk_log \cup {<<"metadata", i, e>>}
              /\ UNCHANGED <<levels, visited, stdout, pc, ret>>
           \/ /\ meta.kind = "symlink"
              /\ stack' = rest
              /\ stdout' = stdout \o (IF verbose THEN <<"Skipped (symlink)">> ELSE <<>>)
              /\ UNCHANGED <<levels, visited, stderr, pc, ret, walk_log>>
           \/ /\ meta.kind = "dir"
              /\ IF should_ignore_dir(levels[i].dir)
                 THEN /\ stack' = rest
                      /\ stdout' = stdout \o (IF verbose THEN <<"Skipped (ignored dir)">> ELSE <<>>)
                 ELSE /\ stack' = Append(rest, [level |-> i + 1, state |-> "enter",
                                                pending |-> {}])
                      /\ UNCHANGED stdout
              /\ UNCHANGED <<levels, visited, stderr, pc, ret, walk_log>>
           \/ /\ meta.kind = "file"
              /\ \E o \in process_file_outcomes(entry, verbose) :
                   /\ levels' = [levels EXCEPT ![i].file = o.entry]
                   /\ visited' = Append(visited, i)
                   /\ UNCHANGED walk_log
                   /\ IF after_process_file(o.ret) = "return"
                      THEN /\ ReturnFolder(o.ret, o.out)
                           /\ UNCHANGED stderr
                      ELSE /\ stack' = rest
                           /\ stdout' = stdout \o o.out
                           /\ stderr' = IF o.ret = "Ok" THEN stderr
                                        ELSE Append(stderr, "Warning: Error processing")
                           /\ UNCHANGED <<pc, ret>>
  /\ UNCHANGED <<trim_vars, two_vars, name_vars, env_vars, root, levels0, listed, fs, fs0,
                 verbose, locals, trace>>

\* The loop is over: process_folder returns Ok(()) (main.rs:227).
LeaveFolder ==
  /\ pc = "walk"
  /\ Top.state = "iter"
  /\ Top.pending = {}
  /\ ReturnFolder("Ok", <<>>)
  /\ UNCHANGED <<trim_vars, two_vars, name_vars, env_vars, root, levels, levels0, visited,
                 listed, walk_log, fs, fs0, verbose, locals, trace, stderr>>

NextFolder == EnterFolder \/ VisitEntry \/ LeaveFolder

\* An invocation on a directory (main.rs:154).
SpecFolder == InitFolder /\ [][NextFolder]_vars

\* ------------------------------------------------------------ other actors
\* What another actor's file holds: "a ", and mode 0o600.
OtherData == <<97, 32>>
OtherMode == 384

\* Between temp_path.exists() (main.rs:328) and File::create (main.rs:336)
\* another actor puts an entry at the temporary path: a file of its own,
\* or a symlink to a file of its own.
OtherCreatesTemp ==
  /\ pc = "create"
  /\ fs[temp_path].kind = "absent"
  /\ fs[LinkDest].kind = "absent"
  /\ \/ /\ fs' = [fs EXCEPT ![temp_path] =
                     RegularFile(OtherData, OtherMode, 1, TRUE)]
        /\ foreign' = foreign \cup {temp_path}
     \/ /\ fs' = [fs EXCEPT ![temp_path] = Symlink(LinkDest),
                            ![LinkDest] =
                     RegularFile(OtherData, OtherMode, 1, TRUE)]
        /\ foreign' = foreign \cup {temp_path, LinkDest}
  /\ UNCHANGED <<trim_vars, two_vars, walk_vars, name_vars, overwritten, fs0, pc,
                 verbose, locals, ret, trace, stdout, stderr>>

\* Between fs::symlink_metadata (main.rs:288) and File::open (main.rs:306)
\* another actor replaces the target by a symlink to a file of its own.
OtherReplacesTarget ==
  /\ pc = "open"
  /\ fs[TargetPath].kind = "file"
  /\ fs[LinkDest].kind = "absent"
  /\ fs' = [fs EXCEPT ![TargetPath] = Symlink(LinkDest),
                      ![LinkDest] = RegularFile(OtherData, OtherMode, 1, TRUE)]
  /\ foreign' = foreign \cup {TargetPath, LinkDest}
  /\ UNCHANGED <<trim_vars, two_vars, walk_vars, name_vars, overwritten, fs0, pc,
                 verbose, locals, ret, trace, stdout, stderr>>

\* After the read (main.rs:307) and before the rename (main.rs:349)
\* another actor writes content of its own into the target; no lock
\* keeps it from doing so.
OtherWritesTarget ==
  /\ pc \in {"trim", "temp_path", "exists", "create", "write", "sync",
             "permissions", "rename"}
  /\ fs[TargetPath].kind = "file"
  /\ ~overwritten
  /\ fs' = [fs EXCEPT ![TargetPath].data = OtherData,
                      ![TargetPath].mtime = 1]
  /\ overwritten' = TRUE
  /\ UNCHANGED <<trim_vars, two_vars, walk_vars, name_vars, foreign, fs0, pc,
                 verbose, locals, ret, trace, stdout, stderr>>

NextRace ==
  \/ StepsFile
  \/ OtherCreatesTemp
  \/ OtherReplacesTarget
  \/ OtherWritesTarget

\* An invocation on a single file with other actors on the same directory.
SpecRace == InitFile /\ [][NextRace]_vars

\* -------------------------------------------------------- two invocations
\* Two invocations of process_file on TargetPath at once, each with its
\* own locals procs[p]; they share the directory. An open file is the
\* entry the path led to when it was opened.
PathsTwo ==
  Paths \cup {generate_temp_path(TargetPath, p, t) : p \in Pids, t \in Timestamps}

\* The target the two start on: " \n", "a \n" or "a\n", with either mode.
TwoTargets ==
  {RegularFile(d, m, 0, TRUE) :
     d \in {<<SP, LF>>, <<LetterA, SP, LF>>, <<LetterA, LF>>}, m \in Modes}

InitTwo ==
  /\ TrimIdle
  /\ WalkIdle
  /\ NameIdle
  /\ foreign = {}
  /\ overwritten = FALSE
  /\ procs = [p \in Pids |-> [NoProc EXCEPT !.pc = "process_file"]]
  /\ \E t \in TwoTargets :
       fs = [p \in PathsTwo |-> IF p = TargetPath THEN t ELSE Absent]
  /\ fs0 = fs
  /\ pc = "two"
  /\ verbose = FALSE
  /\ original_metadata = NoMetadata
  /\ opened = NoPath
  /\ buffer = <<>>
  /\ result = NoResult
  /\ temp_path = NoPath
  /\ temp_file = NoPath
  /\ written = 0
  /\ ret = "none"
  /\ trace = <<>>
  /\ stdout = <<>>
  /\ stderr = <<>>

\* What the steps of the two leave alone.
one_vars ==
  <<trim_vars, walk_vars, name_vars, env_vars, fs0, pc, verbose, locals, ret,
    trace, stdout, stderr>>

\* Invocation p goes to position q.
Goto(p, q) == procs' = [procs EXCEPT ![p].pc = q]

\* Invocation p returns r.
TwoReturn(p, r) == procs' = [procs EXCEPT ![p].pc = "done", ![p].ret = r]

\* main.rs:288-302.
TwoCheckMetadata(p) ==
  /\ procs[p].pc = "process_file"
  /\ UNCHANGED <<one_vars, fs>>
  /\ IF fs[TargetPath].kind = "absent" THEN TwoReturn(p, "NotFound")
     ELSE LET meta == symlink_metadata(fs, TargetPath) IN
       IF meta.kind # "file"
       THEN procs' = [procs EXCEPT ![p].pc = "done", ![p].ret = "Ok",
                                   ![p].original_metadata = meta]
       ELSE procs' = [procs EXCEPT ![p].pc = "open",
                                   ![p].original_metadata = meta]

\* main.rs:306.
TwoOpen(p) ==
  /\ procs[p].pc = "open"
  /\ UNCHANGED <<one_vars, fs>>
  /\ \E ok \in BOOLEAN :
       IF ok /\ exists(fs, TargetPath)
       THEN procs' = [procs EXCEPT ![p].pc = "read",
                                   ![p].opened = fs[resolve(fs, TargetPath)]]
       ELSE TwoReturn(p, "IoError")

\* main.rs:307.
TwoReadToEnd(p) ==
  /\ procs[p].pc = "read"
  /\ UNCHANGED <<one_vars, fs>>
  /\ \E ok \in BOOLEAN :
       IF ok /\ procs[p].opened.kind = "file"
       THEN procs' = [procs EXCEPT ![p].pc = "trim",
                                   ![p].buffer = procs[p].opened.data]
       ELSE TwoReturn(p, "IoError")

\* main.rs:311-323, 356-360.
TwoTrim(p) ==
  /\ procs[p].pc = "trim"
  /\ UNCHANGED <<one_vars, fs>>
  /\ LET content == from_utf8(procs[p].buffer)
         r == trim_trailing_whitespace(content.text)
     IN  IF ~content.ok THEN TwoReturn(p, "Ok")
         ELSE IF should_write(r)
         THEN procs' = [procs EXCEPT ![p].pc = "temp_path", ![p].result = r]
         ELSE procs' = [procs EXCEPT ![p].pc = "done", ![p].ret = "Ok",
                                     ![p].result = r]

\* main.rs:325: process::id() is p, the clock read any of the Timestamps.
TwoGenerateTempPath(p) ==
  /\ procs[p].pc = "temp_path"
  /\ UNCHANGED <<one_vars, fs>>
  /\ \E timestamp \in Timestamps :
       procs' = [procs EXCEPT ![p].pc = "exists",
                   ![p].temp_path = generate_temp_path(TargetPath, p, timestamp)]

\* main.rs:328-333.
TwoCheckExists(p) ==
  /\ procs[p].pc = "exists"
  /\ UNCHANGED <<one_vars, fs>>
  /\ IF exists(fs, procs[p].temp_path) THEN TwoReturn(p, "AlreadyExists")
     ELSE Goto(p, "create")

\* main.rs:336.
TwoCreate(p) ==
  /\ procs[p].pc = "create"
  /\ UNCHANGED one_vars
  /\ \E ok \in BOOLEAN :
       IF ok THEN
         LET f == resolve(fs, procs[p].temp_path) IN
           /\ fs' = [fs EXCEPT ![f] =
                 IF fs[f].kind = "absent"
                 THEN RegularFile(<<>>, CreateMode, 1, FALSE)
                 ELSE [fs[f] EXCEPT !.data = <<>>, !.mtime = 1,
                                    !.synced = FALSE]]
           /\ procs' = [procs EXCEPT ![p].pc = "write", ![p].temp_file = f]
       ELSE
         /\ TwoReturn(p, "IoError")
         /\ UNCHANGED fs

\* main.rs:337.
TwoWriteAll(p) ==
  /\ procs[p].pc = "write"
  /\ UNCHANGED one_vars
  /\ LET bytes == as_bytes(procs[p].result.content)
         done == procs[p].written
     IN  IF done = Len(bytes) THEN
           /\ Goto(p, "sync")
           /\ UNCHANGED fs
         ELSE
           \E k \in 0..(Len(bytes) - done) :
             IF k = 0 THEN
               /\ TwoReturn(p, "IoError")
               /\ UNCHANGED fs
             ELSE
               /\ fs' = [fs EXCEPT ![procs[p].temp_file].data =
                           @ \o SubSeq(bytes, done + 1, done + k),
                         ![procs[p].temp_file].synced = FALSE]
               /\ procs' = [procs EXCEPT
                     ![p].written = done + k,
                     ![p].pc = IF done + k = Len(bytes) THEN "sync" ELSE "write"]

\* main.rs:338.
TwoSyncAll(p) ==
  /\ procs[p].pc = "sync"
  /\ UNCHANGED one_vars
  /\ \E ok \in BOOLEAN :
       IF ok THEN
         /\ fs' = [fs EXCEPT ![procs[p].temp_file] = synced_file(@)]
         /\ Goto(p, "permissions")
       ELSE
         /\ TwoReturn(p, "IoError")
         /\ UNCHANGED fs

\* main.rs:342-346.
TwoPreservePermissions(p) ==
  /\ procs[p].pc = "permissions"
  /\ UNCHANGED one_vars
  /\ \E ok \in BOOLEAN :
       IF ok /\ exists(fs, procs[p].temp_path) THEN
         /\ fs' = preserve_permissions(fs, procs[p].temp_path,
                                       procs[p].original_metadata)
         /\ Goto(p, "rename")
       ELSE
         /\ \E removed \in BOOLEAN :
              fs' = remove_file(fs, procs[p].temp_path, removed)
         /\ TwoReturn(p, "IoError")

\* main.rs:349-355.
TwoRename(p) ==
  /\ procs[p].pc = "rename"
  /\ UNCHANGED one_vars
  /\ \E ok \in BOOLEAN :
       IF ok /\ fs[procs[p].temp_path].kind # "absent" THEN
         /\ fs' = rename(fs, procs[p].temp_path, TargetPath)
         /\ TwoReturn(p, "Ok")
       ELSE
         /\ \E removed \in BOOLEAN :
              fs' = remove_file(fs, procs[p].temp_path, removed)
         /\ TwoReturn(p, "IoError")

\* A step of either invocation: every interleaving of the two.
NextTwo ==
  \E p \in Pids :
    \/ TwoCheckMetadata(p)
    \/ TwoOpen(p)
    \/ TwoReadToEnd(p)
    \/ TwoTrim(p)
    \/ TwoGenerateTempPath(p)
    \/ TwoCheckExists(p)
    \/ TwoCreate(p)
    \/ TwoWriteAll(p)
    \/ TwoSyncAll(p)
    \/ TwoPreservePermissions(p)
    \/ TwoRename(p)

\* Two invocations with distinct process ids on the same target.
SpecTwo == InitTwo /\ [][NextTwo]_vars

Next ==
  \/ TrimCall
  \/ TrimAgain
  \/ GenerateCall
  \/ NextFile

Spec == Init /\ [][Next]_vars

\* ================================================================ claims
Contains(seq, x) == \E i \in DOMAIN seq : seq[i] = x

\* process_folder is running or has returned.
Walking == pc \in {"walk", "walked"}

\* The pieces of a text between its '\n' characters: k newlines, k + 1 pieces.
RECURSIVE SplitAtNewlines(_, _)
SplitAtNewlines(s, cur) ==
  IF s = <<>> THEN <<cur>>
  ELSE IF Head(s) = LF THEN <<cur>> \o SplitAtNewlines(Tail(s), <<>>)
  ELSE SplitAtNewlines(Tail(s), Append(cur, Head(s)))

\* The lines of a text with their "\n" or "\r\n" terminators excluded;
\* nothing after the last terminator is no line.
InputLines(s) ==
  LET P == SplitAtNewlines(s, <<>>)
      n == Len(P)
      Q == [i \in 1..n |->
              IF i < n /\ ends_with(P[i], CR) THEN Front(P[i]) ELSE P[i]]
  IN  IF Q[n] = <<>> THEN SubSeq(Q, 1, n - 1) ELSE Q

\* t is l without some trailing whitespace, and keeps none.
TrailingWhitespaceRemoved(l, t) ==
  /\ Len(t) <= Len(l)
  /\ t = SubSeq(l, 1, Len(t))
  /\ \A j \in (Len(t) + 1)..Len(l) : is_whitespace(l[j])
  /\ t = <<>> \/ ~is_whitespace(Last(t))

\* The returned content is the trimmed lines of `text` joined by "\n",
\* followed by the final "\n" if the text ended with one.
JoinedTrimmedLines(text, content) ==
  LET L == InputLines(text)
      body == IF ends_with(text, LF) /\ ends_with(content, LF)
              THEN Front(content) ELSE content
      O == SplitAtNewlines(body, <<>>)
  IN  IF L = <<>> THEN content = <<>>
      ELSE /\ Len(O) = Len(L)
           /\ \A i \in 1..Len(L) : TrailingWhitespaceRemoved(L[i], O[i])

NoLineEndsInSpaceOrTab(text) ==
  LET O == SplitAtNewlines(text, <<>>)
  IN  \A i \in 1..Len(O) : ~ends_with(O[i], SP) /\ ~ends_with(O[i], TAB)

HasTrailingWhitespace(l) == l # <<>> /\ is_whitespace(Last(l))

\* The target when the invocation started, and what a rewrite makes of it.
OrigFile == fs0[TargetPath]
OrigText == from_utf8(OrigFile.data)
NewData == as_bytes(trim_trailing_whitespace(OrigText.text).content)
OrigIsText == OrigFile.kind = "file" /\ OrigText.ok
Rewritten == pc = "done" /\ ret = "Ok" /\ Contains(trace, "rename")

\* C1: in every state of an invocation, a crash at any step included, the
\* target path holds the complete original entry or the complete trimmed
\* content, never part of either.
C1_TargetOriginalOrNew ==
  pc # "idle" =>
    \/ fs[TargetPath] = fs0[TargetPath]
    \/ /\ OrigIsText
       /\ fs[TargetPath].kind = "file"
       /\ fs[TargetPath].data = NewData

\* C1 witness: the machine crashed after the rename and the target holds
\* the new content, which differs from the original.
C1_Witness ==
  /\ pc = "crashed"
  /\ Contains(trace, "rename")
  /\ fs[TargetPath].data = NewData
  /\ NewData # OrigFile.data
  /\ Len(NewData) >= 2

\* C2 (as claimed): whenever process_file has returned, the temporary file
\* it created is gone from the directory.
C2_NoTempAfterReturn ==
  (pc = "done" /\ temp_file # NoPath) => fs[temp_path].kind = "absent"

\* C3: a call on a symlink returns Ok with no open, read or write, and the
\* directory, the file the link refers to included, is as it was.
C3_SymlinkSkipped ==
  (OrigFile.kind = "symlink" /\ pc # "idle") =>
    /\ trace = <<>>
    /\ fs = fs0
    /\ pc = "done" => ret = "Ok"

\* C3 witness: the call on a symlink has returned and the file it refers
\* to has trailing whitespace.
C3_Witness ==
  /\ OrigFile.kind = "symlink"
  /\ pc = "done"
  /\ from_utf8(fs[LinkDest].data).ok
  /\ trim_trailing_whitespace(from_utf8(fs[LinkDest].data).text).modified

\* C4: after a rewrite the target has the permission bits the original had
\* when its metadata was captured.
C4_PermissionsPreserved ==
  Rewritten => fs[TargetPath].mode = OrigFile.mode

\* C4 witness: a rewritten file whose bits, 0o754, differ from those
\* File::create gives.
C4_Witness ==
  /\ Rewritten
  /\ OrigFile.mode = 492
  /\ fs[TargetPath].data # OrigFile.data

\* C5: a text the transformer reports as not modified is never touched: no
\* temporary file, no rename, and content, modification time and
\* permission bits as before.
C5_UnmodifiedUntouched ==
  (pc # "idle" /\ OrigIsText
     /\ ~trim_trailing_whitespace(OrigText.text).modified) =>
    /\ fs = fs0
    /\ temp_path = NoPath
    /\ ~Contains(trace, "create")
    /\ ~Contains(trace, "rename")

\* C5 witness: process_file returned Ok on a clean two-line text it read.
C5_Witness ==
  /\ pc = "done" /\ ret = "Ok"
  /\ OrigIsText
  /\ buffer = <<97, 10, 97>>
  /\ ~result.modified

\* Well-formed UTF-8 of one- and two-byte sequences, byte by byte: an ASCII
\* byte, a lead byte before a continuation byte, or a continuation byte
\* after a lead byte.
WellFormedUtf8(bytes) ==
  \A i \in 1..Len(bytes) :
    LET b == bytes[i] IN
      \/ b < 128
      \/ /\ b \in 194..223
         /\ i < Len(bytes) /\ bytes[i + 1] \in 128..191
      \/ /\ b \in 128..191
         /\ i > 1 /\ bytes[i - 1] \in 194..223

\* C6: a file that is not valid UTF-8 is never touched and gets no
\* temporary file, and the call that read it returns Ok.
C6_BinaryUntouched ==
  (pc # "idle" /\ OrigFile.kind = "file" /\ ~WellFormedUtf8(OrigFile.data)) =>
    /\ fs = fs0
    /\ temp_path = NoPath
    /\ ~Contains(trace, "create")
    /\ (pc = "done" /\ buffer # <<>>) => ret = "Ok"

\* C6 witness: the call returned after reading bytes that are not UTF-8
\* although they end in a space.
C6_Witness ==
  /\ pc = "done"
  /\ buffer = <<255, 32>>
  /\ OrigFile.kind = "file"

\* C7: the content returned is the lines of the input, in order, each
\* without its trailing whitespace and otherwise unchanged, joined by "\n".
C7_LinesTrimmedAndJoined ==
  /\ tpc = "ret" => JoinedTrimmedLines(input, tres.content)
  /\ (pc = "temp_path" \/ Rewritten) =>
        JoinedTrimmedLines(OrigText.text, result.content)

\* C7 witness: two lines, the first with leading and trailing whitespace
\* around a letter.
C7_Witness ==
  /\ tpc = "ret"
  /\ input = <<SP, LetterA, TAB, LF, LetterA>>
  /\ tres.content = <<SP, LetterA, LF, LetterA>>

\* C8: no line of the returned content ends in a space or a tab, and so no
\* line of a rewritten file does.
C8_NoTrailingSpaceOrTab ==
  /\ tpc = "ret" => NoLineEndsInSpaceOrTab(tres.content)
  /\ Rewritten => /\ from_utf8(fs[TargetPath].data).ok
                  /\ NoLineEndsInSpaceOrTab(from_utf8(fs[TargetPath].data).text)

\* C8 witness: a rewritten file whose original had two lines ending in a
\* space.
C8_Witness ==
  /\ Rewritten
  /\ OrigFile.data = <<32, 10, 32>>
  /\ fs[TargetPath].data = <<10>>

\* C9 (as claimed): the output ends in a newline exactly when the input does.
C9_FinalTerminatorPreserved ==
  tpc = "ret" => (ends_with(tres.content, LF) <=> ends_with(input, LF))

\* The input's last line has no terminator and is all whitespace, after at
\* least one terminated line.
FinalLineBlankUnterminated(text) ==
  LET P == SplitAtNewlines(text, <<>>)
  IN  /\ Len(P) >= 2
      /\ P[Len(P)] # <<>>
      /\ \A j \in 1..Len(P[Len(P)]) : is_whitespace(P[Len(P)][j])

\* C9 (amended): an input ending in a newline gives output ending in a
\* newline; an input not ending in one gives output not ending in one,
\* except when its unterminated last line is all whitespace and follows a
\* terminated line: that line becomes empty and the output ends with the
\* terminator before it.
C9_FinalTerminatorAmended ==
  tpc = "ret" =>
    (ends_with(tres.content, LF) <=>
       (ends_with(input, LF) \/ FinalLineBlankUnterminated(input)))

\* C9 witness: both cases happen, here the exceptional one.
C9_Witness ==
  /\ tpc = "ret"
  /\ input = <<LetterA, LF, SP, TAB>>
  /\ tres.content = <<LetterA, LF>>

\* A text made of "\n" and "\r\n" terminators only.
OnlyTerminators(text) ==
  \A i \in 1..Len(text) :
    \/ text[i] = LF
    \/ text[i] = CR /\ i < Len(text) /\ text[i + 1] = LF

\* C10: modified is true exactly when some line, its "\n" or "\r\n"
\* terminator excluded, ends in whitespace; "a\r\n" gives ("a\n", false),
\* "a \r\n" gives ("a\n", true), and a text of terminators only gives false.
C10_ModifiedIffTrailingWhitespace ==
  tpc = "ret" =>
    /\ tres.modified <=>
         \E i \in 1..Len(InputLines(input)) :
            HasTrailingWhitespace(InputLines(input)[i])
    /\ input = <<LetterA, CR, LF>> =>
         tres = [content |-> <<LetterA, LF>>, modified |-> FALSE]
    /\ input = <<LetterA, SP, CR, LF>> =>
         tres = [content |-> <<LetterA, LF>>, modified |-> TRUE]
    /\ OnlyTerminators(input) => ~tres.modified

\* C10 witness: only the first of two lines has trailing whitespace, before
\* its "\r\n".
C10_Witness ==
  /\ tpc = "ret"
  /\ input = <<SP, CR, LF, LetterA>>
  /\ tres.modified

\* C11: the transform is idempotent: a second call on the returned content
\* returns it unchanged with modified = false, and a second run of the tool
\* on a file it has rewritten writes nothing: content, modification time
\* and permission bits stay.
C11_Idempotent ==
  /\ tpc = "ret2" => tres2 = [content |-> tres.content, modified |-> FALSE]
  /\ (pc # "idle" /\ OrigFile.kind = "file" /\ OrigFile.mtime = 1) =>
       /\ fs = fs0
       /\ ~Contains(trace, "create")
       /\ pc = "done" => ~Contains(stdout, "Processed")

\* C11 witness: the second run has read the rewritten file, of two lines,
\* and returned Ok.
C11_Witness ==
  /\ pc = "done" /\ ret = "Ok"
  /\ OrigFile.mtime = 1
  /\ buffer = <<97, 10>>
  /\ fs[TargetPath].mtime = 1

\* process_file reached the rewrite branch of main.rs:323, and its rename
\* went through.
DecidedToRewrite == temp_path # NoPath
Committed == Contains(trace, "rename") /\ ~Contains(trace, "remove_file")
IsErr(r) == r \in {"NotFound", "AlreadyExists", "IoError", "InvalidInput"}

\* C14: a call that decided to rewrite and failed (temporary path taken,
\* create, write, sync, permission copy or rename failed) returns the
\* error, and the target entry, content and permission bits, is as before.
C14_FailureLeavesTarget ==
  (pc = "done" /\ DecidedToRewrite) =>
    \/ Committed /\ ret = "Ok"
    \/ /\ ~Committed
       /\ IsErr(ret)
       /\ fs[TargetPath] = fs0[TargetPath]

\* C14 witness: the rename failed, the cleanup ran and the call returned
\* the error, on a file of mode 0o754.
C14_Witness ==
  /\ pc = "done"
  /\ ret = "IoError"
  /\ Contains(trace, "rename")
  /\ Contains(trace, "remove_file")
  /\ OrigFile.mode = 492

\* The first position of a call in the trace (0: not made).
FirstIndex(x) ==
  IF Contains(trace, x)
  THEN CHOOSE i \in DOMAIN trace :
         trace[i] = x /\ \A j \in 1..(i - 1) : trace[j] # x
  ELSE 0

\* C15: a rewrite happens in this order: the temporary file gets the whole
\* new content, the content is synced, the original permission bits are
\* applied, then the file is renamed onto the target; "Processed" is
\* printed only after the rename went through.
C15_RewriteOrder ==
  /\ pc \in {"sync", "permissions", "rename"} =>
       fs[temp_file].data = as_bytes(result.content)
  /\ pc \in {"permissions", "rename"} => fs[temp_file].synced
  /\ pc = "rename" => fs[temp_file].mode = OrigFile.mode
  /\ Contains(trace, "rename") =>
       /\ 0 < FirstIndex("create")
       /\ FirstIndex("create") < FirstIndex("sync_all")
       /\ FirstIndex("sync_all") < FirstIndex("set_permissions")
       /\ FirstIndex("set_permissions") < FirstIndex("rename")
       /\ \A i \in DOMAIN trace :
            trace[i] = "write" =>
              FirstIndex("create") < i /\ i < FirstIndex("sync_all")
  /\ Contains(stdout, "Processed") =>
       /\ Committed
       /\ pc = "done" => fs[TargetPath].data = NewData

\* C15 witness: a rewrite whose content took two write calls.
C15_Witness ==
  /\ Rewritten
  /\ Contains(stdout, "Processed")
  /\ trace = <<"open", "read", "create", "write", "write", "sync_all",
               "set_permissions", "rename">>

\* C17 (as claimed): a target that is neither a regular file nor a symlink
\* makes process_file return an error.
C17_NonRegularFails ==
  (pc = "done" /\ OrigFile.kind \in {"dir", "fifo"}) => IsErr(ret)

\* C16 (as claimed): two calls of generate_temp_path for the same target,
\* by two processes or by one, never return the same path.
C16_TempPathsDistinct ==
  \A i, j \in DOMAIN generated :
    i # j => generated[i].path # generated[j].path

\* C18 (as claimed): an entry at the temporary path makes process_file
\* fail with AlreadyExists, also when the entry appears between the
\* existence check and the create: process_file never creates over,
\* truncates or writes into an entry of another actor.
C18_NeverWritesForeignEntry ==
  /\ temp_file # NoPath => temp_file \notin foreign
  /\ (pc = "done" /\ temp_path # NoPath /\ temp_path \in foreign) =>
        ret # "Ok"

\* C20 (as claimed): when the target is replaced by a symlink after the
\* metadata was captured, process_file neither opens nor reads through the
\* symlink, and the file the symlink refers to keeps its content.
C20_NeverReadsThroughSymlink ==
  TargetPath \in foreign =>
    /\ opened \in {NoPath, TargetPath}
    /\ fs[LinkDest].data = OtherData

\* --------------------------------------------------------- directory walk
\* The name of the directory at level i: the root's, or the name its
\* parent level gives it.
DirName(i) == IF i = 1 THEN root.name ELSE levels0[i - 1].dir

\* The name is one of the ignore list or begins with a dot.
ListedOrDotted(name) == name \in IGNORED_DIRS \/ Head(name) = "."

\* process_file as the walk uses it agrees with process_file step by step:
\* every result of a call on a regular file is one of process_file_outcomes.
ProcessFileSummary ==
  (pc = "done" /\ OrigFile.kind = "file") =>
    [ret |-> ret, entry |-> fs[TargetPath], out |-> stdout]
      \in process_file_outcomes(OrigFile, verbose)

\* C12 (as stated): a file inside a directory whose name is in the ignore
\* list or begins with a dot is never modified, at any depth and for every
\* root path.
C12_IgnoredDirsUntouched ==
  Walking =>
    \A i \in DOMAIN levels :
      (\E j \in 1..i : ListedOrDotted(DirName(j))) =>
        levels[i].file = levels0[i].file

\* C12 (amended): a file below a directory that the walk meets under the
\* root, and whose name is UTF-8 and is in the ignore list or begins with a
\* dot, is never modified; the root's own name is not looked at, and a name
\* that is not UTF-8 is never ignored.
C12_IgnoredBelowRootUntouched ==
  Walking =>
    \A i \in DOMAIN levels :
      (\E j \in 2..i : ListedOrDotted(DirName(j)) /\ to_str_ok(DirName(j))) =>
        /\ levels[i].file = levels0[i].file
        /\ i \notin listed

\* C12 witness: the walk is over, it rewrote the root's file and left the
\* dirty file of the dotted directory below it alone.
C12_Witness ==
  /\ pc = "walked"
  /\ ret = "Ok"
  /\ Len(levels) = 2
  /\ levels0[1].dir = <<".", "hidden">>
  /\ levels0[2].file = DirtyFile
  /\ levels[2].file = DirtyFile
  /\ levels[1].file # levels0[1].file

\* The levels the walk is to reach: below the root through directories it
\* does not ignore.
Reachable(i) == \A j \in 2..i : ~should_ignore_dir(DirName(j))

Handed(i) == \E k \in DOMAIN visited : visited[k] = i

DirectoryError == \E x \in walk_log : x[1] \in {"read_dir", "entry"}

\* C13 (as stated): a walk of a directory hands every regular file it can
\* reach to process_file and returns Ok.
C13_EveryFileProcessed ==
  (pc = "walked" /\ root.kind = "dir") =>
    /\ ret = "Ok"
    /\ \A i \in DOMAIN levels :
         (Reachable(i) /\ levels0[i].file.kind = "file") => Handed(i)

\* C13 (amended): unless listing a directory or reading an entry fails,
\* which ends the walk with that error, the walk returns Ok and has handed
\* to process_file, once, every reachable regular file whose metadata it
\* could read, whatever process_file returned for the others.
C13_EveryReadableFileProcessed ==
  (pc = "walked" /\ root.kind = "dir") =>
    /\ (ret = "Ok") <=> ~DirectoryError
    /\ ret = "Ok" =>
         \A i \in DOMAIN levels :
           (/\ Reachable(i)
            /\ \A j \in 1..i : <<"metadata", j - 1, "dir">> \notin walk_log
            /\ levels0[i].file.kind = "file"
            /\ <<"metadata", i, "file">> \notin walk_log)
             => Cardinality({k \in DOMAIN visited : visited[k] = i}) = 1

\* C13 witness: process_file failed on the root's file, and the walk went
\* on to rewrite the file of the subdirectory and returned Ok.
C13_Witness ==
  /\ pc = "walked"
  /\ ret = "Ok"
  /\ Len(levels) = 2
  /\ visited = <<1, 2>>
  /\ levels0[1].file = DirtyFile
  /\ levels[1].file = DirtyFile
  /\ levels[2].file # levels0[2].file
  /\ Contains(stderr, "Warning: Error processing")

\* C19: a root that is a symlink is a no-op that returns Ok, a root that is
\* not a directory returns an error; neither lists nor modifies anything.
C19_RootValidated ==
  (Walking /\ root.kind \in {"symlink", "file"}) =>
    /\ listed = {}
    /\ visited = <<>>
    /\ levels = levels0
    /\ pc = "walked" =>
         ret = (IF root.kind = "symlink" THEN "Ok" ELSE "InvalidInput")

\* C19 witness: the walk of a symlinked root is over, and the dirty file in
\* the directory the link leads to is as it was.
C19_Witness ==
  /\ pc = "walked"
  /\ root.kind = "symlink"
  /\ ret = "Ok"
  /\ levels[1].file = DirtyFile

\* The walk met a symlink and skipped it: the root, or the file of a
\* directory it listed and whose entries it went through to the end.
SymlinkMet ==
  \/ root.kind = "symlink"
  \/ /\ ret = "Ok"
     /\ \E i \in listed :
          /\ levels0[i].file.kind = "symlink"
          /\ <<"metadata", i, "file">> \notin walk_log

\* C21 (as claimed): every symlink met is skipped with a report: an
\* informational message on stdout when verbose is set, a warning on stderr
\* when it is not.
C21_SymlinkSkipReported ==
  (pc = "walked" /\ SymlinkMet) =>
    IF verbose THEN Contains(stdout, "Skipped (symlink)")
    ELSE Contains(stderr, "Warning: Ignoring symlink")

\* C24: the step in which listing a directory or reading an entry fails
\* ends the whole walk with an error: every call in progress returns, no
\* entry still to be visited, in that directory or in an ancestor, is
\* processed then or later, and the files rewritten before stay rewritten.
C24_DirectoryErrorPropagates ==
  /\ [][(DirectoryError' /\ ~DirectoryError) =>
          /\ pc' = "walked"
          /\ IsErr(ret')
          /\ stack' = <<>>
          /\ levels' = levels
          /\ visited' = visited
          /\ listed' = listed
          /\ \A k \in DOMAIN stack :
               ("file" \in stack[k].pending
                  /\ <<"entry", stack[k].level, "file">> \notin walk_log') =>
                 /\ ~Contains(visited', stack[k].level)
                 /\ levels'[stack[k].level].file = levels0[stack[k].level].file]_vars
  /\ [][pc = "walked" => UNCHANGED vars]_vars
  /\ [](pc = "walked" /\ DirectoryError =>
          /\ IsErr(ret)
          /\ \A i \in DOMAIN levels :
               /\ ~Handed(i) => levels[i].file = levels0[i].file
               /\ i \notin listed => ~Handed(i))

\* C24 witness: reading an entry of the subdirectory failed after its file
\* was rewritten and before the root's file was visited: the walk returned
\* the error, the first file is trimmed, the second untouched.
C24_Witness ==
  /\ pc = "walked"
  /\ IsErr(ret)
  /\ walk_log = {<<"entry", 2, "dir">>}
  /\ visited = <<2>>
  /\ levels0[2].file = DirtyFile
  /\ levels[2].file.data = <<10>>
  /\ levels0[1].file = DirtyFile
  /\ levels[1].file = DirtyFile

\* ------------------------------------------------------------ line endings
ContainsCRLF(d) == \E i \in 1..(Len(d) - 1) : d[i] = CR /\ d[i + 1] = LF
CountLF(d) == Cardinality({i \in DOMAIN d : d[i] = LF})
SomeLineHasTrailingWhitespace(text) ==
  \E i \in 1..Len(InputLines(text)) : HasTrailingWhitespace(InputLines(text)[i])

\* C25: when process_file returns Ok on a text file, either some line had
\* trailing whitespace and the file was rewritten with every "\r\n" turned
\* into "\n" (no "\r\n" left, as many "\n" as before), or no line had and
\* the directory is as it was, "\r\n" terminators included, with no
\* temporary file ever created.
C25_LineEndingsAllOrNothing ==
  (pc = "done" /\ ret = "Ok" /\ OrigIsText) =>
    IF SomeLineHasTrailingWhitespace(OrigText.text)
    THEN /\ Contains(trace, "rename")
         /\ ~ContainsCRLF(fs[TargetPath].data)
         /\ CountLF(fs[TargetPath].data) = CountLF(OrigFile.data)
    ELSE /\ fs = fs0
         /\ ~Contains(trace, "create")
         /\ ContainsCRLF(OrigFile.data) => result.content # OrigText.text

\* C25 witness: "\r\n " was rewritten to "\n": the first line had no
\* trailing whitespace and lost its "\r" all the same.
C25_Witness ==
  /\ Rewritten
  /\ OrigFile.data = <<CR, LF, SP>>
  /\ fs[TargetPath].data = <<LF>>

\* ------------------------------------------------------- read and commit
\* What the path leads to holds exactly the trimmed text of `bytes`.
HoldsTrimOf(bytes) ==
  /\ from_utf8(bytes).ok
  /\ fs[resolve(fs, TargetPath)].data =
       as_bytes(trim_trailing_whitespace(from_utf8(bytes).text).content)

\* C23: when a modifying process_file has returned Ok, the target holds
\* exactly trim_trailing_whitespace of the bytes the call read, also when
\* another actor wrote to the target between the read and the rename: what
\* it wrote is gone.
C23_CommitsTrimOfBytesRead ==
  Rewritten =>
    /\ HoldsTrimOf(buffer)
    /\ overwritten => fs[resolve(fs, TargetPath)].data # OtherData

\* C23 witness: the target held " \n" when read, another actor then wrote
\* "a " into it, and after the rename it holds "\n".
C23_Witness ==
  /\ Rewritten
  /\ overwritten
  /\ buffer = <<SP, LF>>
  /\ fs[TargetPath].data = <<LF>>

\* -------------------------------------------------------- two invocations
BothReturned == \A p \in Pids : procs[p].pc = "done"

\* C22: of two invocations with distinct process ids on one target, under
\* every interleaving, each has a temporary path of its own; from its
\* File::create to its rename its temporary file is there and holds exactly
\* the bytes it has written itself; the target always holds the complete
\* original or the complete trimmed content, the trimmed one as soon as
\* one of the two has returned Ok; and once both have returned Ok the
\* target has the original mode and no temporary file is left.
C22_TwoInvocations ==
  pc = "two" =>
    /\ \A p, q \in Pids :
         (p # q /\ procs[p].temp_path # NoPath) =>
           procs[p].temp_path # procs[q].temp_path
    /\ \A p \in Pids :
         procs[p].pc \in {"write", "sync", "permissions", "rename"} =>
           /\ procs[p].temp_file = procs[p].temp_path
           /\ fs[procs[p].temp_path].kind = "file"
           /\ fs[procs[p].temp_path].data =
                SubSeq(as_bytes(procs[p].result.content), 1, procs[p].written)
    /\ fs[TargetPath].kind = "file"
    /\ fs[TargetPath].data \in {OrigFile.data, NewData}
    /\ (\E p \in Pids : procs[p].pc = "done" /\ procs[p].ret = "Ok") =>
         fs[TargetPath].data = NewData
    /\ (BothReturned /\ \A p \in Pids : procs[p].ret = "Ok") =>
         /\ fs[TargetPath].kind = "file"
         /\ fs[TargetPath].data = NewData
         /\ fs[TargetPath].mode = OrigFile.mode
         /\ \A t \in PathsTwo \ {TargetPath} : fs[t].kind = "absent"

\* C22 witness: both read "a \n" before either renamed, took the same clock
\* reading for their temporary names, wrote and renamed, and both returned
\* Ok.
C22_Witness ==
  /\ pc = "two"
  /\ BothReturned
  /\ OrigFile.data = <<LetterA, SP, LF>>
  /\ \A p \in Pids :
       /\ procs[p].ret = "Ok"
       /\ procs[p].buffer = <<LetterA, SP, LF>>
       /\ procs[p].written = 2
  /\ procs[process_id].temp_path.name[6] = procs[other_process_id].temp_path.name[6]
  /\ fs[TargetPath].data = <<LetterA, LF>>

====
